---- MODULE Spec2Model ----
(***************************************************************************)
(* A model of csp.py: the CSP class (construction API, AC-3 inference and  *)
(* the backtracking search).  Python lists are sequences, Python dicts are *)
(* functions whose key order is kept where the code iterates over it.      *)
(***************************************************************************)
EXTENDS Integers, Sequences, FiniteSets, TLC

\* ---------------------------------------------------------------- bounds
\* longest domain handed to add_variable
MaxDomainLen == 3
\* most arcs declared in one CSP
MaxArcs == 2

\* the names handed to add_variable, in the order fresh ones are taken
Names == <<"a", "b">>
\* the same with a third name
Names3 == <<"a", "b", "c">>
\* the filter functions handed to add_constraint_one_way
Preds == {"ne", "eq", "lt"}

VARIABLES variables, domains, constraints, lastCall,
          pc, assignment, queue, inferences, caller, stack, ret, result,
          count_backtrack, count_failures, firstRun

csp == <<variables, domains, constraints>>
search == <<pc, assignment, queue, inferences, caller, stack, ret, result,
            count_backtrack, count_failures, firstRun>>
vars == <<variables, domains, constraints, lastCall,
          pc, assignment, queue, inferences, caller, stack, ret, result,
          count_backtrack, count_failures, firstRun>>

\* ------------------------------------------------------- list primitives
Range(s) == {s[n] : n \in 1..Len(s)}

\* x in list
In(x, s) == \E n \in 1..Len(s) : s[n] = x

\* removal that moves the last element into the place of x
ListRemove_swap(s, x) ==
    LET n == CHOOSE m \in 1..Len(s) : s[m] = x /\ \A l \in 1..(m - 1) : s[l] # x
    IN  [m \in 1..(Len(s) - 1) |-> IF m = n THEN s[Len(s)] ELSE s[m]]

\* list.remove(x): drops the first occurrence of x (x is in the list)
ListRemove(s, x) ==
    LET n == CHOOSE m \in 1..Len(s) : s[m] = x /\ \A l \in 1..(m - 1) : s[l] # x
    IN  [m \in 1..(Len(s) - 1) |-> IF m < n THEN s[m] ELSE s[m + 1]]

\* the lists add_variable is called with: [1, .., n], [MaxDomainLen, .., 1]
\* and [MaxDomainLen]
DomainChoices ==
    {[k \in 1..n |-> k] : n \in 1..MaxDomainLen} \cup
    {[k \in 1..MaxDomainLen |-> MaxDomainLen + 1 - k], <<MaxDomainLen>>}

\* fewer lists, for the CSPs of three variables: [1, .., n] and [MaxDomainLen]
DomainChoices3 ==
    {[k \in 1..n |-> k] : n \in 1..MaxDomainLen} \cup {<<MaxDomainLen>>}

\* the lambdas the builders pass: x != y, x == y and x < y
Holds(p, x, y) ==
    CASE p = "ne" -> x # y
      [] p = "eq" -> x = y
      [] p = "lt" -> x < y

\* ---------------------------------------------------------- class CSP
\* the keys of self.domains / self.constraints / an assignment, in the
\* order dict iteration yields them: first insertion by add_variable
RECURSIVE KeyOrder(_)
KeyOrder(vs) ==
    IF vs = <<>> THEN <<>>
    ELSE LET front == KeyOrder(SubSeq(vs, 1, Len(vs) - 1))
             last == vs[Len(vs)]
         IN  IF In(last, front) THEN front ELSE Append(front, last)

\* self.constraints[i] is a dict j -> list of pairs, kept as the sequence
\* of its items [to |-> j, pairs |-> list] in insertion order
HasArc(cons, i, j) == i \in DOMAIN cons /\ \E n \in 1..Len(cons[i]) : cons[i][n].to = j

PairsOf(cons, i, j) ==
    cons[i][CHOOSE n \in 1..Len(cons[i]) : cons[i][n].to = j].pairs

get_all_possible_pairs(a, b) ==
    [n \in 1..(Len(a) * Len(b)) |->
        <<a[((n - 1) \div Len(b)) + 1], b[((n - 1) % Len(b)) + 1]>>]

get_all_arcs_of(cons, order) ==
    LET RECURSIVE Walk(_)
        Walk(n) == IF n > Len(order) THEN <<>>
                   ELSE [m \in 1..Len(cons[order[n]]) |->
                            <<order[n], cons[order[n]][m].to>>] \o Walk(n + 1)
    IN  Walk(1)

get_all_arcs == get_all_arcs_of(constraints, KeyOrder(variables))

get_all_neighboring_arcs(var) ==
    [n \in 1..Len(constraints[var]) |-> <<constraints[var][n].to, var>>]

\* add_constraint_one_way without the test of line 63: every call starts
\* from the full cross product
ConstraintOneWay_refill(cons, doms, i, j, p) ==
    LET Legal(pr) == Holds(p, pr[1], pr[2])
        entry == [to |-> j,
                  pairs |-> SelectSeq(get_all_possible_pairs(doms[i], doms[j]), Legal)]
    IN  IF HasArc(cons, i, j)
        THEN [cons EXCEPT ![i] =
                 [n \in 1..Len(cons[i]) |-> IF cons[i][n].to = j THEN entry ELSE cons[i][n]]]
        ELSE [cons EXCEPT ![i] = Append(cons[i], entry)]

\* the value of self.constraints after add_constraint_one_way(i, j, p)
ConstraintOneWay(cons, doms, i, j, p) ==
    LET Legal(pr) == Holds(p, pr[1], pr[2])
    IN  IF HasArc(cons, i, j)
        THEN [cons EXCEPT ![i] =
                 [n \in 1..Len(cons[i]) |->
                    IF cons[i][n].to = j
                    THEN [to |-> j, pairs |-> SelectSeq(cons[i][n].pairs, Legal)]
                    ELSE cons[i][n]]]
        ELSE [cons EXCEPT ![i] =
                 Append(cons[i],
                        [to |-> j,
                         pairs |-> SelectSeq(get_all_possible_pairs(doms[i], doms[j]),
                                             Legal)])]

\* add_all_different_constraint declaring each pair of names one way only
AllDifferent_one_way(cons, doms, vs) ==
    LET prs == get_all_possible_pairs(vs, vs)
        RECURSIVE Walk(_, _)
        Walk(c, n) ==
            IF n > Len(prs) THEN c
            ELSE IF prs[n][1] # prs[n][2] /\ ~HasArc(c, prs[n][2], prs[n][1])
                 THEN Walk(ConstraintOneWay(c, doms, prs[n][1], prs[n][2], "ne"), n + 1)
                 ELSE Walk(c, n + 1)
    IN  Walk(cons, 1)

\* the value of self.constraints after add_all_different_constraint(vs)
AllDifferent(cons, doms, vs) ==
    LET prs == get_all_possible_pairs(vs, vs)
        RECURSIVE Walk(_, _)
        Walk(c, n) ==
            IF n > Len(prs) THEN c
            ELSE IF prs[n][1] # prs[n][2]
                 THEN Walk(ConstraintOneWay(c, doms, prs[n][1], prs[n][2], "ne"), n + 1)
                 ELSE Walk(c, n + 1)
    IN  Walk(cons, 1)

ArcCount(cons) ==
    LET RECURSIVE Sum(_)
        Sum(S) == IF S = {} THEN 0
                  ELSE LET k == CHOOSE k \in S : TRUE IN Len(cons[k]) + Sum(S \ {k})
    IN  Sum(DOMAIN cons)

\* the name lists add_all_different_constraint is called with
NameLists ==
    {s \in UNION {[1..n -> DOMAIN domains] : n \in 2..Cardinality(DOMAIN domains)} :
        \A k, l \in 1..Len(s) : k # l => s[k] # s[l]}

\* no name twice in the list
NoDuplicate(vs) == \A k, l \in 1..Len(vs) : k # l => vs[k] # vs[l]

\* the fresh name add_variable is called with: the next one of names
FreshNames(names) ==
    IF Cardinality(DOMAIN domains) < Len(names)
    THEN {names[Cardinality(DOMAIN domains) + 1]} ELSE {}

Init ==
    /\ variables = <<>>
    /\ domains = <<>>
    /\ constraints = <<>>
    /\ lastCall = [op |-> "__init__"]
    /\ pc = "build"
    /\ assignment = <<>>
    /\ queue = <<>>
    /\ inferences = "none"
    /\ caller = "none"
    /\ stack = <<>>
    /\ ret = [kind |-> "none"]
    /\ result = [kind |-> "none"]
    /\ count_backtrack = 0
    /\ count_failures = 0
    /\ firstRun = [kind |-> "none"]

\* lines 24-26; a name is registered a second time at most once
add_variable(name, domain) ==
    /\ pc = "build"
    /\ NoDuplicate(variables)
    /\ variables' = Append(variables, name)
    /\ domains' = [k \in (DOMAIN domains) \cup {name} |->
                      IF k = name THEN domain ELSE domains[k]]
    /\ constraints' = [k \in (DOMAIN constraints) \cup {name} |->
                          IF k = name THEN <<>> ELSE constraints[k]]
    /\ lastCall' = [op |-> "add_variable"]
    /\ UNCHANGED search

add_constraint_one_way(i, j, p) ==
    /\ pc = "build"
    /\ i # j
    /\ HasArc(constraints, i, j) \/ ArcCount(constraints) < MaxArcs
    /\ constraints' = ConstraintOneWay(constraints, domains, i, j, p)
    /\ lastCall' = [op |-> "add_constraint_one_way"]
    /\ UNCHANGED <<variables, domains>>
    /\ UNCHANGED search

add_all_different_constraint(vs) ==
    /\ pc = "build"
    /\ ArcCount(AllDifferent(constraints, domains, vs)) <= MaxArcs
    /\ constraints' = AllDifferent(constraints, domains, vs)
    /\ lastCall' = [op |-> "add_all_different_constraint"]
    /\ UNCHANGED <<variables, domains>>
    /\ UNCHANGED search

Build ==
    \/ \E name \in FreshNames(Names) \cup DOMAIN domains, domain \in DomainChoices :
          add_variable(name, domain)
    \/ \E i, j \in DOMAIN domains, p \in Preds : add_constraint_one_way(i, j, p)
    \/ \E vs \in NameLists : add_all_different_constraint(vs)

Build3 ==
    \/ \E name \in FreshNames(Names3), domain \in DomainChoices3 : add_variable(name, domain)
    \/ \E i, j \in DOMAIN domains, p \in Preds : add_constraint_one_way(i, j, p)
    \/ \E vs \in NameLists : add_all_different_constraint(vs)

\* ------------------------------------------------------------ revise
\* lines 223-238: the for loop over assignment[i] by position, the list
\* shrinking under it when a value is removed
RECURSIVE ReviseLoop(_, _, _, _, _)
ReviseLoop(list, idx, dj, legal, revised) ==
    IF idx > Len(list) THEN [list |-> list, revised |-> revised]
    ELSE LET x == list[idx]
             satisfied == \E n \in 1..Len(dj) : <<x, dj[n]>> \in legal
         IN  IF satisfied
             THEN ReviseLoop(list, idx + 1, dj, legal, revised)
             ELSE ReviseLoop(ListRemove(list, x), idx + 1, dj, legal, TRUE)

\* self.constraints[i][j] is looked up (line 230) once there is an x and a y
ReviseRaises(asg, i, j) ==
    /\ ~HasArc(constraints, i, j)
    /\ asg[i] # <<>>
    /\ asg[j] # <<>>

revise(asg, i, j) ==
    LET legal == IF HasArc(constraints, i, j)
                 THEN Range(PairsOf(constraints, i, j)) ELSE {}
        r == ReviseLoop(asg[i], 1, asg[j], legal, FALSE)
    IN  [assignment |-> [asg EXCEPT ![i] = r.list], revised |-> r.revised]

\* --------------------------------------------------------- inference
\* one pass of the while loop, lines 194-207
inference_step ==
    /\ pc = "inference"
    /\ queue # <<>>
    /\ LET i == queue[1][1]
           j == queue[1][2]
           rest == Tail(queue)
           NotJ(k) == k[1] # j
       IN  IF ReviseRaises(assignment, i, j)
           THEN /\ pc' = "raised"
                /\ result' = [kind |-> "KeyError"]
                /\ queue' = rest
                /\ UNCHANGED <<assignment, inferences>>
           ELSE LET r == revise(assignment, i, j)
                IN  /\ assignment' = r.assignment
                    /\ result' = result
                    /\ IF r.revised /\ r.assignment[i] = <<>>
                       THEN /\ inferences' = "False"
                            /\ pc' = "inferred"
                            /\ queue' = rest
                       ELSE /\ queue' = IF r.revised
                                        THEN rest \o SelectSeq(get_all_neighboring_arcs(i), NotJ)
                                        ELSE rest
                            /\ UNCHANGED <<pc, inferences>>
    /\ UNCHANGED <<csp, lastCall, caller, stack, ret,
                   count_backtrack, count_failures, firstRun>>

\* line 209
inference_return_true ==
    /\ pc = "inference"
    /\ queue = <<>>
    /\ inferences' = "True"
    /\ pc' = "inferred"
    /\ UNCHANGED <<csp, lastCall, assignment, queue, caller, stack, ret, result,
                   count_backtrack, count_failures, firstRun>>

\* ------------------------------------------------ backtracking_search
\* lines 84-97, up to the call of inference; the builders register every
\* name once before they search
backtracking_search ==
    /\ pc = "build"
    /\ NoDuplicate(variables)
    /\ count_backtrack' = 0
    /\ count_failures' = 0
    /\ assignment' = domains
    /\ queue' = get_all_arcs
    /\ caller' = "backtracking_search"
    /\ pc' = "inference"
    /\ lastCall' = [op |-> "backtracking_search"]
    /\ UNCHANGED <<csp, inferences, stack, ret, result, firstRun>>

\* line 99: the value of inference is dropped, backtrack is called
backtracking_search_backtrack ==
    /\ pc = "inferred"
    /\ caller = "backtracking_search"
    /\ pc' = "backtrack"
    /\ UNCHANGED <<csp, lastCall, assignment, queue, inferences, caller, stack,
                   ret, result, count_backtrack, count_failures, firstRun>>

\* lines 183-185; "None" when no list is longer than one
select_unassigned_variable(asg) ==
    LET order == KeyOrder(variables)
        open == {n \in 1..Len(order) : Len(asg[order[n]]) > 1}
    IN  IF open = {} THEN "None"
        ELSE order[CHOOSE n \in open : \A m \in open : n <= m]

\* lines 139-152: the check of one value against the neighbours' lists
consistent(asg, variable, value) ==
    \A otherVariable \in DOMAIN asg :
        (otherVariable # variable /\ HasArc(constraints, variable, otherVariable)) =>
            \E n \in 1..Len(asg[otherVariable]) :
                In(<<value, asg[otherVariable][n]>>,
                   PairsOf(constraints, variable, otherVariable))

\* whether the loop of backtrack runs the check of lines 139-152; it does
\* in every search but the one search_without_precheck starts
precheck == lastCall.op # "search_without_precheck"

\* lines 118-134: entry of backtrack up to the start of the for loop; the
\* frame keeps the assignment it was called with (entry) beside the dict
\* the loop works on
backtrack_enter ==
    /\ pc = "backtrack"
    /\ count_backtrack' = count_backtrack + 1
    /\ IF \A k \in DOMAIN assignment : Len(assignment[k]) = 1
       THEN /\ ret' = [kind |-> "assignment", value |-> assignment]
            /\ pc' = "return"
            /\ UNCHANGED <<stack, result>>
       ELSE LET variable == select_unassigned_variable(assignment)
            IN  IF variable = "None"
                THEN /\ pc' = "raised"
                     /\ result' = [kind |-> "KeyError"]
                     /\ UNCHANGED <<stack, ret>>
                ELSE /\ stack' = Append(stack,
                                   [entry |-> assignment,
                                    assignment |-> assignment,
                                    variable |-> variable,
                                    values |-> assignment[variable],
                                    idx |-> 1,
                                    value |-> 0,
                                    aliased |-> TRUE])
                     /\ pc' = "loop"
                     /\ UNCHANGED <<ret, result>>
    /\ UNCHANGED <<csp, lastCall, assignment, queue, inferences, caller,
                   count_failures, firstRun>>

Top == stack[Len(stack)]
SetTop(f) == [stack EXCEPT ![Len(stack)] = f]
Pop == SubSeq(stack, 1, Len(stack) - 1)

\* line 170: assignment[variable].remove(value); values is the same list
\* object until line 158 has bound assignment[variable] to a new list
RemoveRaises(f) == ~In(f.value, f.assignment[f.variable])

\* the same with line 159 binding assignmentCopy to assignment itself: the
\* lists inference has pruned are the frame's own
RemoveValue_shared(f) ==
    LET g == [f EXCEPT !.assignment =
                 [k \in DOMAIN f.assignment |->
                     IF k = f.variable THEN f.assignment[k] ELSE assignment[k]]]
        shorter == ListRemove(g.assignment[g.variable], g.value)
    IN  [g EXCEPT !.assignment[g.variable] = shorter,
                  !.values = IF g.aliased THEN shorter ELSE @]

RemoveValue(f) ==
    LET shorter == ListRemove(f.assignment[f.variable], f.value)
    IN  [f EXCEPT !.assignment[f.variable] = shorter,
                  !.values = IF f.aliased THEN shorter ELSE @]

\* the loop walking the list from its end
value_at_reversed(values, idx) == values[Len(values) + 1 - idx]

\* line 136: the value the for loop over values yields at position idx
value_at(values, idx) == values[idx]

\* lines 136-160 for the next value, or lines 172-175 when the loop ends
backtrack_loop ==
    /\ pc = "loop"
    /\ IF Top.idx > Len(Top.values)
       THEN /\ count_failures' = count_failures + 1
            /\ stack' = Pop
            /\ ret' = [kind |-> "False"]
            /\ pc' = "return"
            /\ UNCHANGED <<assignment, queue, caller, result>>
       ELSE LET value == value_at(Top.values, Top.idx)
                f == [Top EXCEPT !.value = value, !.idx = @ + 1]
            IN  IF ~precheck \/ consistent(Top.assignment, Top.variable, value)
                THEN LET g == [f EXCEPT !.assignment[f.variable] = <<value>>,
                                        !.aliased = FALSE]
                     IN  /\ stack' = SetTop(g)
                         /\ assignment' = g.assignment
                         /\ queue' = get_all_arcs
                         /\ caller' = "backtrack"
                         /\ pc' = "inference"
                         /\ UNCHANGED <<ret, result, count_failures>>
                ELSE IF RemoveRaises(f)
                     THEN /\ pc' = "raised"
                          /\ result' = [kind |-> "ValueError"]
                          /\ stack' = SetTop(f)
                          /\ UNCHANGED <<assignment, queue, caller, ret, count_failures>>
                     ELSE /\ stack' = SetTop(RemoveValue(f))
                          /\ UNCHANGED <<pc, assignment, queue, caller, ret, result,
                                         count_failures>>
    /\ UNCHANGED <<csp, lastCall, inferences, count_backtrack, firstRun>>

\* lines 163-164 and 170: after inference on the copy
backtrack_inferred ==
    /\ pc = "inferred"
    /\ caller = "backtrack"
    /\ IF inferences = "True"
       THEN /\ pc' = "backtrack"
            /\ UNCHANGED <<stack, result>>
       ELSE IF RemoveRaises(Top)
            THEN /\ pc' = "raised"
                 /\ result' = [kind |-> "ValueError"]
                 /\ UNCHANGED stack
            ELSE /\ stack' = SetTop(RemoveValue(Top))
                 /\ pc' = "loop"
                 /\ UNCHANGED result
    /\ UNCHANGED <<csp, lastCall, assignment, queue, inferences, caller, ret,
                   count_backtrack, count_failures, firstRun>>

\* a return of backtrack: to backtracking_search (line 99) or to the frame
\* that called it (lines 164-170)
backtrack_return ==
    /\ pc = "return"
    /\ IF stack = <<>>
       THEN /\ result' = ret
            /\ pc' = "done"
            /\ UNCHANGED stack
       ELSE IF ret.kind = "assignment" /\ DOMAIN ret.value # {}
            THEN /\ stack' = Pop
                 /\ UNCHANGED <<pc, result>>
            ELSE IF RemoveRaises(Top)
                 THEN /\ pc' = "raised"
                      /\ result' = [kind |-> "ValueError"]
                      /\ UNCHANGED stack
                 ELSE /\ stack' = SetTop(RemoveValue(Top))
                      /\ pc' = "loop"
                      /\ UNCHANGED result
    /\ UNCHANGED <<csp, lastCall, assignment, queue, inferences, caller, ret,
                   count_backtrack, count_failures, firstRun>>

\* ------------------------------------- inference called by a client, twice
inference_call ==
    /\ pc = "build"
    /\ NoDuplicate(variables)
    /\ assignment' = domains
    /\ queue' = get_all_arcs
    /\ caller' = "client"
    /\ pc' = "inference"
    /\ lastCall' = [op |-> "inference"]
    /\ UNCHANGED <<csp, inferences, stack, ret, result,
                   count_backtrack, count_failures, firstRun>>

inference_again ==
    /\ pc = "inferred"
    /\ caller = "client"
    /\ IF firstRun.kind = "none"
       THEN /\ firstRun' = [kind |-> "ran", inferences |-> inferences,
                            assignment |-> assignment]
            /\ queue' = get_all_arcs
            /\ pc' = "inference"
       ELSE /\ pc' = "done"
            /\ UNCHANGED <<firstRun, queue>>
    /\ UNCHANGED <<csp, lastCall, assignment, inferences, caller, stack, ret, result,
                   count_backtrack, count_failures>>

\* ------------------ the search run again, without lines 139-152
\* after backtracking_search() has ended, its outcome is kept and the same
\* CSP is searched by lines 84-99 with every value taken as consistent
search_without_precheck ==
    /\ lastCall.op = "backtracking_search"
    /\ pc \in {"done", "raised"}
    /\ firstRun' = [kind |-> "searched", result |-> result]
    /\ count_backtrack' = 0
    /\ count_failures' = 0
    /\ assignment' = domains
    /\ queue' = get_all_arcs
    /\ caller' = "backtracking_search"
    /\ pc' = "inference"
    /\ stack' = <<>>
    /\ ret' = [kind |-> "none"]
    /\ result' = [kind |-> "none"]
    /\ lastCall' = [op |-> "search_without_precheck"]
    /\ UNCHANGED <<csp, inferences>>

Search ==
    \/ backtracking_search
    \/ inference_step
    \/ inference_return_true
    \/ backtracking_search_backtrack
    \/ backtrack_enter
    \/ backtrack_loop
    \/ backtrack_inferred
    \/ backtrack_return

Client ==
    \/ inference_call
    \/ inference_again

Next == Build \/ Search \/ Client

Spec == Init /\ [][Next]_vars

\* the same, the search never stopping short of its end
FairSpec == Spec /\ WF_vars(Search)

\* every search followed by the search without the check of lines 139-152
NextBoth == Next \/ search_without_precheck

SpecBoth == Init /\ [][NextBoth]_vars

\* the construction API alone
SpecBuild == Init /\ [][Build]_vars

\* CSPs of up to three variables
Next3 == Build3 \/ Search \/ Client

Spec3 == Init /\ [][Next3]_vars

\* inference alone, called by a client on CSPs of up to three variables
Inference == inference_step \/ inference_return_true

NextInference3 == Build3 \/ Inference \/ Client

SpecInference3 == Init /\ [][NextInference3]_vars

\* the same, the while loop of inference never stopping short of its end
FairInference3 == SpecInference3 /\ WF_vars(Inference)

\* ================================================================ claims
Registered == DOMAIN domains
Arcs == {a \in Registered \X Registered : HasArc(constraints, a[1], a[2])}
LegalPairs(i, j) == Range(PairsOf(constraints, i, j))
SearchEnded == lastCall.op = "backtracking_search" /\ pc \in {"done", "raised"}
Returned == lastCall.op = "backtracking_search" /\ pc = "done"

\* a complete assignment that satisfies every declared constraint exists
Solvable ==
    \E f \in [Registered -> UNION {Range(domains[k]) : k \in Registered}] :
        /\ \A k \in Registered : In(f[k], domains[k])
        /\ \A a \in Arcs : <<f[a[1]], f[a[2]]>> \in LegalPairs(a[1], a[2])

ArcConsistent(asg) ==
    \A a \in Arcs : \A n \in 1..Len(asg[a[1]]) :
        \E m \in 1..Len(asg[a[2]]) : <<asg[a[1]][n], asg[a[2]][m]>> \in LegalPairs(a[1], a[2])

\* C1: an assignment returned by backtracking_search() gives every variable
\* a list of length one, and for every declared arc (i,j) the pair of the two
\* decided values is in constraints[i][j].
C1_Soundness ==
    (Returned /\ result.kind = "assignment") =>
        /\ \A k \in Registered : Len(result.value[k]) = 1
        /\ \A a \in Arcs :
              <<result.value[a[1]][1], result.value[a[2]][1]>> \in LegalPairs(a[1], a[2])

\* C2: when a satisfying complete assignment exists, backtracking_search()
\* returns an assignment (it neither returns False nor raises).
C2_Completeness ==
    (SearchEnded /\ Solvable) =>
        (pc = "done" /\ result.kind = "assignment")

\* C3: when no satisfying assignment exists, backtracking_search() returns
\* False; it neither raises nor returns an assignment.
C3_InfeasibleReturnsFailure ==
    (SearchEnded /\ ~Solvable) =>
        (pc = "done" /\ result.kind = "False")

\* C4: when inference over all declared arcs returns True, every value left
\* in assignment[i] has a support in assignment[j], for every declared arc.
C4_ArcConsistentAfterInference ==
    (pc = "inferred" /\ inferences = "True") =>
        ArcConsistent(assignment)

\* C5: a second run of inference on the result of the first, with the same
\* arcs, returns the same value and leaves the same domains; stated for a
\* first run that returned True, the case in which a fixed point is claimed.
C5_InferenceIdempotent ==
    (lastCall.op = "inference" /\ pc = "done" /\ firstRun.inferences = "True") =>
        /\ inferences = firstRun.inferences
        /\ assignment = firstRun.assignment

\* C6: with at least one variable and no declared constraint,
\* backtracking_search() returns the assignment that maps every variable to
\* the list holding the first value of its initial domain.
C6_NoConstraintsFirstValues ==
    (SearchEnded /\ variables # <<>> /\ Arcs = {}) =>
        /\ pc = "done"
        /\ result.kind = "assignment"
        /\ \A k \in Registered : result.value[k] = <<domains[k][1]>>

C6_Witness ==
    /\ Returned
    /\ Arcs = {}
    /\ Cardinality(Registered) >= 2
    /\ \A k \in Registered : Len(domains[k]) >= 2
    /\ result.kind = "assignment"
    /\ count_backtrack = Cardinality(Registered) + 1

\* C7: get_all_neighboring_arcs(var) is exactly the list of the arcs (k, var)
\* with a declared constraint from k into var.
C7_NeighboringArcsAreIncoming ==
    pc = "build" =>
        \A var \in Registered :
            Range(get_all_neighboring_arcs(var)) =
                {<<k, var>> : k \in {k \in Registered : HasArc(constraints, k, var)}}

\* the pair-set a call on (i,j) starts from, and the arcs of cons other than (i,j)
BasePairs(i, j) ==
    IF HasArc(constraints, i, j) THEN PairsOf(constraints, i, j)
    ELSE get_all_possible_pairs(domains[i], domains[j])

SameOtherArcs(cons, i, j) ==
    \A k, l \in Registered :
        <<k, l>> # <<i, j>> =>
            /\ HasArc(cons, k, l) = HasArc(constraints, k, l)
            /\ HasArc(cons, k, l) => PairsOf(cons, k, l) = PairsOf(constraints, k, l)

\* C8: a call add_constraint_one_way(i, j, p) leaves in constraints[i][j]
\* exactly the pairs of the former pair-set (the cross product of the two
\* domains when (i,j) was not declared) that satisfy p, and touches no other
\* arc; two calls with p and q leave the pairs that satisfy both, whichever
\* comes first.
C8_Post(i, j, p) ==
    LET Keep(pr) == Holds(p, pr[1], pr[2])
    IN  /\ HasArc(constraints', i, j)
        /\ PairsOf(constraints', i, j) = SelectSeq(BasePairs(i, j), Keep)
        /\ SameOtherArcs(constraints', i, j)
        /\ \A q \in Preds :
              LET Both(pr) == Keep(pr) /\ Holds(q, pr[1], pr[2])
              IN  \A pq \in {ConstraintOneWay(constraints', domains, i, j, q)} :
                      /\ pq = ConstraintOneWay(ConstraintOneWay(constraints, domains, i, j, q),
                                               domains, i, j, p)
                      /\ PairsOf(pq, i, j) = SelectSeq(BasePairs(i, j), Both)

C8_Step ==
    lastCall'.op = "add_constraint_one_way" =>
        \A i, j \in Registered : \A p \in Preds :
            (i # j /\ add_constraint_one_way(i, j, p)) => C8_Post(i, j, p)

C8_IncrementalIntersection == [][C8_Step]_vars

\* (i,j) was filtered by both x != y and x == y, (j,i) was never declared
C8_Witness ==
    /\ pc = "build"
    /\ lastCall.op = "add_constraint_one_way"
    /\ NoDuplicate(variables)
    /\ \E i, j \in Registered :
          /\ HasArc(constraints, i, j)
          /\ ~HasArc(constraints, j, i)
          /\ PairsOf(constraints, i, j) = <<>>
          /\ Len(domains[i]) >= 2
          /\ domains[i] = domains[j]

\* C9: after add_all_different_constraint(vs) every ordered pair of distinct
\* names of vs is a declared arc, no pair-set of these arcs holds a pair
\* (x,x), and every pair (x,y), x != y, that was legal before still is.
C9_Post(vs) ==
    \A k, l \in 1..Len(vs) :
        k # l =>
            /\ HasArc(constraints', vs[k], vs[l])
            /\ \A pr \in Range(PairsOf(constraints', vs[k], vs[l])) : pr[1] # pr[2]
            /\ \A pr \in Range(BasePairs(vs[k], vs[l])) :
                  pr[1] # pr[2] => pr \in Range(PairsOf(constraints', vs[k], vs[l]))

C9_Step ==
    lastCall'.op = "add_all_different_constraint" =>
        \A vs \in NameLists : add_all_different_constraint(vs) => C9_Post(vs)

C9_AllDifferent == [][C9_Step]_vars

C9_Witness ==
    /\ pc = "build"
    /\ lastCall.op = "add_all_different_constraint"
    /\ \E i, j \in Registered :
          /\ i # j
          /\ HasArc(constraints, i, j) /\ HasArc(constraints, j, i)
          /\ Len(domains[i]) >= 2 /\ Len(domains[j]) >= 2
          /\ Len(PairsOf(constraints, i, j)) > 0
          /\ Len(PairsOf(constraints, i, j)) < Len(domains[i]) * Len(domains[j])

\* C10: add_variable with a registered name leaves the CSP unchanged: no
\* second entry in variables, the domain and the outgoing constraints kept.
C10_Step ==
    \A name \in Registered : \A domain \in DomainChoices :
        (lastCall'.op = "add_variable" /\ add_variable(name, domain)) =>
            /\ variables' = variables
            /\ domains' = domains
            /\ constraints' = constraints

C10_DuplicateVariableRejected == [][C10_Step]_vars

\* C11: one call revise(assignment, i, j) on a declared arc leaves in
\* assignment[i] exactly the values that have a support in assignment[j], in
\* their former order, leaves every other list alone, and returns True
\* exactly when a value was removed.
C11_Step ==
    (pc = "inference" /\ queue # <<>> /\ HasArc(constraints, queue[1][1], queue[1][2])) =>
        LET i == queue[1][1]
            j == queue[1][2]
            Supported(x) ==
                \E n \in 1..Len(assignment[j]) : <<x, assignment[j][n]>> \in LegalPairs(i, j)
            r == revise(assignment, i, j)
        IN  /\ assignment' = r.assignment
            /\ r.assignment[i] = SelectSeq(assignment[i], Supported)
            /\ \A k \in DOMAIN assignment : k # i => r.assignment[k] = assignment[k]
            /\ r.revised <=> (r.assignment[i] # assignment[i])

C11_ReviseRemovesUnsupported == [][C11_Step]_vars

\* C12: when a revise step on a declared arc (i,j) inside inference shrinks
\* assignment[i] without emptying it, every declared arc (k,i) with k != j
\* is on the worklist right after the step.
C12_Step ==
    (pc = "inference" /\ queue # <<>> /\ HasArc(constraints, queue[1][1], queue[1][2])) =>
        LET i == queue[1][1]
            j == queue[1][2]
            r == revise(assignment, i, j)
        IN  (r.revised /\ r.assignment[i] # <<>>) =>
                \A k \in Registered :
                    (k # j /\ HasArc(constraints, k, i)) => In(<<k, i>>, queue')

C12_RequeueIncomingArcs == [][C12_Step]_vars

\* C13: while inference runs, every arc on the worklist is a declared arc,
\* and inference started by a client from get_all_arcs() never raises on a
\* lookup of constraints[i][j].
C13_WorklistArcsDeclared ==
    /\ pc = "inference" =>
          \A n \in 1..Len(queue) : HasArc(constraints, queue[n][1], queue[n][2])
    /\ lastCall.op = "inference" => pc # "raised"

\* C14: every call of inference returns (the worklist drains or a list is
\* emptied), and a pass of its loop appends an arc to the worklist only when
\* it made some list strictly shorter.
C14_Step ==
    (pc = "inference" /\ queue # <<>> /\ Len(queue') >= Len(queue)) =>
        \E k \in DOMAIN assignment : Len(assignment'[k]) < Len(assignment[k])

C14_InferenceTerminates ==
    /\ [][C14_Step]_vars
    /\ (pc = "inference") ~> (pc = "inferred")

\* the calls of backtrack that have not returned, the one being made included
Depth == Len(stack) + (IF pc = "backtrack" THEN 1 ELSE 0)
Undecided(asg) == Cardinality({k \in DOMAIN asg : Len(asg[k]) > 1})

\* C15: backtracking_search() returns in the end; the nesting depth of
\* backtrack never exceeds the number of variables plus one, and each
\* recursive call gets an assignment with fewer undecided variables than its
\* caller had: the caller's selected variable is decided and no other
\* variable has become undecided.
C15_Step ==
    (pc = "inferred" /\ caller = "backtrack" /\ pc' = "backtrack") =>
        /\ Len(Top.assignment[Top.variable]) = 1
        /\ Undecided(assignment) <= Undecided(Top.assignment)

C15_SearchTerminates ==
    /\ [](lastCall.op = "backtracking_search" => Depth <= Cardinality(Registered) + 1)
    /\ [][C15_Step]_vars
    /\ (lastCall.op = "backtracking_search") ~> (pc = "done")

\* C16: a frame of backtrack changes its assignment at the selected variable
\* only, so each candidate's inference starts from the frame's entry lists
\* of all other variables; and backtracking_search() changes neither
\* self.domains nor self.constraints.
C16_FrameKeepsOthers ==
    \A n \in 1..Len(stack) :
        \A k \in DOMAIN stack[n].entry :
            k # stack[n].variable => stack[n].assignment[k] = stack[n].entry[k]

C16_Step ==
    /\ (pc = "loop" /\ pc' = "inference") =>
          \A k \in DOMAIN Top.entry : k # Top.variable => assignment'[k] = Top.entry[k]
    /\ pc # "build" => (domains' = domains /\ constraints' = constraints)

C16_BranchIsolation ==
    /\ [](lastCall.op = "backtracking_search" => C16_FrameKeepsOthers)
    /\ [][C16_Step]_vars

\* back in the loop after a branch whose inference pruned another variable,
\* a later candidate still to come
C16_Witness ==
    /\ pc = "loop"
    /\ ~Top.aliased
    /\ Top.idx <= Len(Top.values)
    /\ \E k \in DOMAIN Top.entry : k # Top.variable /\ assignment[k] # Top.entry[k]

\* s can be had from t by dropping elements
RECURSIVE IsSubseq(_, _)
IsSubseq(s, t) ==
    IF s = <<>> THEN TRUE
    ELSE IF t = <<>> THEN FALSE
    ELSE IF s[1] = t[1] THEN IsSubseq(Tail(s), Tail(t))
    ELSE IsSubseq(s, Tail(t))

\* the assignment the running call of inference was entered with
InferenceEntry ==
    IF caller = "backtrack" THEN Top.assignment
    ELSE IF caller = "client" /\ firstRun.kind = "ran" THEN firstRun.assignment
    ELSE domains

\* C17: while inference runs and when it returns, every variable's list is
\* a subsequence of the list inference was entered with, and each pass of
\* the loop only drops values: it adds none and keeps the order.
C17_Step ==
    (pc = "inference" /\ queue # <<>>) =>
        \A k \in DOMAIN assignment : IsSubseq(assignment'[k], assignment[k])

C17_MonotonicShrink ==
    /\ [](pc \in {"inference", "inferred"} =>
             \A k \in DOMAIN assignment : IsSubseq(assignment[k], InferenceEntry[k]))
    /\ [][C17_Step]_vars

\* inference has returned True after dropping a value from a list that
\* still holds two
C17_Witness ==
    /\ pc = "inferred"
    /\ inferences = "True"
    /\ \E k \in DOMAIN assignment :
          /\ Len(assignment[k]) >= 2
          /\ Len(assignment[k]) < Len(InferenceEntry[k])

\* C18: the n-th candidate a frame of backtrack takes is the n-th value of
\* the selected variable's list at entry, and the loop ends without a
\* solution only after every value of that list has been a candidate.
C18_CandidateOrder ==
    pc = "loop" =>
        LET atEntry == Top.entry[Top.variable]
        IN  IF Top.idx > Len(Top.values)
            THEN Top.idx - 1 = Len(atEntry)
            ELSE value_at(Top.values, Top.idx) = atEntry[Top.idx]

\* C19: when the loop of a frame of backtrack ends and the frame returns
\* False, the selected variable's list in the frame's assignment is empty,
\* and the removal of line 170 never raises.
C19_FailureLeavesEmptyDomain ==
    /\ (pc = "loop" /\ Top.idx > Len(Top.values)) => Top.assignment[Top.variable] = <<>>
    /\ ~(pc = "raised" /\ result.kind = "ValueError")

\* C20: the search without the check of lines 139-152 ends as
\* backtracking_search() ends on the same CSP: the same assignment, False
\* both times, or the same exception.
C20_PrecheckRedundant ==
    (lastCall.op = "search_without_precheck" /\ pc \in {"done", "raised"}) =>
        result = firstRun.result
====
